---- MODULE Spec2Model ----
(***************************************************************************)
(* A model of src/main.py: the address book (Field / Phone / Birthday,     *)
(* Record, AddressBook) and the command loop of main().                    *)
(*                                                                         *)
(* Text is modelled as sequences of one-character strings, so that         *)
(* startswith, strip, split, isdigit, int and strptime are computed on the *)
(* characters as the code computes them.  An optional value (Python None   *)
(* or a missing attribute) is the empty sequence, a present value v is     *)
(* <<v>>.                                                                  *)
(***************************************************************************)
EXTENDS Integers, Sequences, FiniteSets, TLC

VARIABLES
    data,               \* AddressBook.data: the dict, in insertion order
    current_page,       \* AddressBook.current_page
    page_size,          \* AddressBook.page_size (absent until iterator runs)
    iterator_instance,  \* AddressBook.iterator_instance and its generator
    file,               \* address_book.pkl on disk
    pc,                 \* where the process is: main / loop / done / crashed
    exc,                \* the uncaught exception that ended the process
    inp,                \* main: the line input() returned in this iteration
    result,             \* main: what the iteration printed
    now,                \* the wall clock datetime.now() reads
    pages,              \* history: pages returned since show contacts
    sentinels,          \* history: "No more records." returned since then
    dirty,              \* history: the dict was mutated since then
    stay                \* history: keys in the dict ever since then

vars == <<data, current_page, page_size, iterator_instance, file, pc, exc,
          inp, result, now, pages, sentinels, dirty, stay>>

----------------------------------------------------------------------------
(* Bounds of the model.                                                    *)

\* A contact's phone list is capped at this length (add phone is disabled
\* beyond it); the code has no cap.
MaxPhones == 2

\* The clock runs over the years FirstYear .. FirstYear + YearSpan - 1.
YearSpan == 2

\* The clock advances in steps of 1 / TicksPerDay of a day.
TicksPerDay == 2

FirstYear == 2023

----------------------------------------------------------------------------
(* Text.                                                                   *)

None == <<>>

Some(v) == <<v>>

Digits == {"0","1","2","3","4","5","6","7","8","9"}

DigitVal(c) ==
    CASE c = "0" -> 0 [] c = "1" -> 1 [] c = "2" -> 2 [] c = "3" -> 3
      [] c = "4" -> 4 [] c = "5" -> 5 [] c = "6" -> 6 [] c = "7" -> 7
      [] c = "8" -> 8 [] c = "9" -> 9

\* str.isdigit(): non-empty and every character a digit.
isdigit(s) == Len(s) > 0 /\ \A i \in 1..Len(s) : s[i] \in Digits

RECURSIVE DecimalValue(_)
DecimalValue(s) ==
    IF s = <<>> THEN 0
    ELSE 10 * DecimalValue(SubSeq(s, 1, Len(s) - 1)) + DigitVal(s[Len(s)])

\* str.startswith(prefix)
startswith(s, prefix) ==
    Len(prefix) <= Len(s) /\ SubSeq(s, 1, Len(prefix)) = prefix

RECURSIVE lstrip(_)
lstrip(s) ==
    IF s # <<>> /\ Head(s) = " " THEN lstrip(Tail(s)) ELSE s

RECURSIVE rstrip(_)
rstrip(s) ==
    IF s # <<>> /\ s[Len(s)] = " " THEN rstrip(SubSeq(s, 1, Len(s) - 1)) ELSE s

\* str.strip()
strip(s) == rstrip(lstrip(s))

\* The length of the leading run of characters other than sep.
RECURSIVE FieldLen(_, _)
FieldLen(s, sep) ==
    IF s = <<>> \/ Head(s) = sep THEN 0 ELSE 1 + FieldLen(Tail(s), sep)

\* str.split(maxsplit=k): fields separated by runs of blanks; after k
\* splits the rest of the text, its leading blanks dropped, is the last
\* field.  k < 0 is no limit (str.split()).
RECURSIVE split(_, _)
split(s, maxsplit) ==
    LET t == lstrip(s)
        n == FieldLen(t, " ")
    IN  IF t = <<>> THEN <<>>
        ELSE IF maxsplit = 0 THEN <<t>>
        ELSE <<SubSeq(t, 1, n)>> \o split(SubSeq(t, n + 1, Len(t)), maxsplit - 1)

\* The fields of s between single occurrences of the character sep.
RECURSIVE Fields(_, _)
Fields(s, sep) ==
    LET n == FieldLen(s, sep)
    IN  IF n = Len(s) THEN <<s>>
        ELSE <<SubSeq(s, 1, n)>> \o Fields(SubSeq(s, n + 2, Len(s)), sep)

\* int(text): the value of a decimal numeral, ValueError (None) otherwise.
\* Signs, underscores and blanks, which int() also accepts, are not among
\* the model's inputs.
int(s) == IF isdigit(s) THEN Some(DecimalValue(s)) ELSE None

----------------------------------------------------------------------------
(* Dates: datetime values are [year, month, day] plus, for the clock, the  *)
(* time of day in ticks.                                                   *)

IsLeap(y) == (y % 4 = 0 /\ y % 100 # 0) \/ y % 400 = 0

DaysInMonth(y, m) ==
    IF m = 2 THEN (IF IsLeap(y) THEN 29 ELSE 28)
    ELSE IF m \in {4, 6, 9, 11} THEN 30 ELSE 31

DaysInYear(y) == IF IsLeap(y) THEN 366 ELSE 365

\* datetime(year, month, day) raises ValueError for a date that does not
\* exist.
ValidDate(y, m, d) ==
    /\ y \in 1..9999
    /\ m \in 1..12
    /\ d \in 1..DaysInMonth(y, m)

RECURSIVE DaysBeforeMonth(_, _)
DaysBeforeMonth(y, m) ==
    IF m = 1 THEN 0 ELSE DaysBeforeMonth(y, m - 1) + DaysInMonth(y, m - 1)

RECURSIVE DaysBeforeYear(_)
DaysBeforeYear(y) ==
    IF y <= FirstYear THEN 0 ELSE DaysBeforeYear(y - 1) + DaysInYear(y - 1)

\* Days from 1 January FirstYear to the date (dates of FirstYear or later).
Ordinal(y, m, d) == DaysBeforeYear(y) + DaysBeforeMonth(y, m) + (d - 1)

\* datetime.strptime(text, fmt) for the formats "%d<sep>%m<sep>%Y": a day
\* and a month of one or two digits, a year of four, an existing date.
\* The parsed datetime (at 00:00), or None for ValueError.
strptime(text, sep) ==
    LET f == Fields(text, sep)
    IN  IF /\ Len(f) = 3
           /\ isdigit(f[1]) /\ Len(f[1]) <= 2
           /\ isdigit(f[2]) /\ Len(f[2]) <= 2
           /\ isdigit(f[3]) /\ Len(f[3]) = 4
           /\ ValidDate(DecimalValue(f[3]), DecimalValue(f[2]), DecimalValue(f[1]))
        THEN Some([type |-> "datetime", year |-> DecimalValue(f[3]),
                   month |-> DecimalValue(f[2]), day |-> DecimalValue(f[1])])
        ELSE None

\* The separators of the formats ("%d-%m-%Y", "%d %m %Y", "%d/%m/%Y"), in
\* the order the loops try them.
BirthdayFormats == <<"-", " ", "/">>

\* for fmt in (...): try strptime ... break: the first format that parses.
RECURSIVE ParseFrom(_, _)
ParseFrom(text, i) ==
    IF i > Len(BirthdayFormats) THEN None
    ELSE IF strptime(text, BirthdayFormats[i]) # None
         THEN strptime(text, BirthdayFormats[i])
         ELSE ParseFrom(text, i + 1)

ParseBirthday(text) == ParseFrom(text, 1)

----------------------------------------------------------------------------
(* Values a handler returns and main prints.  One record shape for all:    *)
(* a str (text, with the name or number formatted into it as arg and the   *)
(* day count as n), a list of (name, phones) pairs, a Record (by its key), *)
(* or None.                                                                *)

Str(text, arg) ==
    [type |-> "str", text |-> text, arg |-> arg, n |-> 0, items |-> <<>>]

StrN(text, arg, n) ==
    [type |-> "str", text |-> text, arg |-> arg, n |-> n, items |-> <<>>]

List(items) ==
    [type |-> "list", text |-> "", arg |-> <<>>, n |-> 0, items |-> items]

RecordAt(key) ==
    [type |-> "Record", text |-> "", arg |-> key, n |-> 0, items |-> <<>>]

NoneValue ==
    [type |-> "None", text |-> "", arg |-> <<>>, n |-> 0, items |-> <<>>]

\* What a call leaves: the exception it raised ("" for none), the value it
\* returned, and the dict afterwards.
Return(value, book) == [exc |-> "", ret |-> value, book |-> book]

Raise(exception, book) == [exc |-> exception, ret |-> NoneValue, book |-> book]

----------------------------------------------------------------------------
(* Field, Name, Phone, Birthday.                                           *)

\* Field.is_valid, which Name inherits.
Name_is_valid(value) == TRUE

Phone_is_valid(value) == Len(value) = 10 /\ isdigit(value)

\* isinstance(value, datetime)
Birthday_is_valid(value) == value.type = "datetime"

----------------------------------------------------------------------------
(* Record: [name, phones, birthday].                                       *)

Record_init(name) == [name |-> name, phones |-> <<>>, birthday |-> None]

\* The index of the first phone whose value is phone_number, 0 for none.
FirstIndex(phones, phone_number) ==
    IF \E i \in 1..Len(phones) : phones[i] = phone_number
    THEN CHOOSE i \in 1..Len(phones) :
            /\ phones[i] = phone_number
            /\ \A j \in 1..(i - 1) : phones[j] # phone_number
    ELSE 0

\* Record.add_phone: [exc, rec].
Record_add_phone(rec, phone_number) ==
    IF Phone_is_valid(phone_number)
    THEN [exc |-> "", rec |-> [rec EXCEPT !.phones = Append(@, phone_number)]]
    ELSE [exc |-> "ValueError", rec |-> rec]

\* A variant of Record.edit_phone with the break left out: every matching
\* phone is replaced.
Record_edit_phone_all(rec, old_phone_number, new_phone_number) ==
    IF FirstIndex(rec.phones, old_phone_number) = 0 \/ ~Phone_is_valid(new_phone_number)
    THEN [exc |-> "ValueError", rec |-> rec]
    ELSE [exc |-> "",
          rec |-> [rec EXCEPT !.phones =
                      [i \in 1..Len(@) |-> IF @[i] = old_phone_number
                                           THEN new_phone_number ELSE @[i]]]]

\* Record.edit_phone: [exc, rec].  The first match is assigned the new
\* number, through the setter, which validates before it assigns.
Record_edit_phone(rec, old_phone_number, new_phone_number) ==
    LET i == FirstIndex(rec.phones, old_phone_number)
    IN  IF i = 0 THEN [exc |-> "ValueError", rec |-> rec]
        ELSE IF ~Phone_is_valid(new_phone_number)
             THEN [exc |-> "ValueError", rec |-> rec]
             ELSE [exc |-> "", rec |-> [rec EXCEPT !.phones[i] = new_phone_number]]

\* Record.find_phone: the first matching phone, or None.
Record_find_phone(rec, phone_number) ==
    LET i == FirstIndex(rec.phones, phone_number)
    IN  IF i = 0 THEN None ELSE Some(rec.phones[i])

\* Record.days_to_birthday at clock reading t = [year, month, day, tick]:
\* [exc, days] with days None when no birthday is set.  The reads of
\* datetime.now() are taken at one instant.
Record_days_to_birthday(rec, t) ==
    IF rec.birthday = None THEN [exc |-> "", days |-> None]
    ELSE
      LET b == rec.birthday[1]
          today == Ordinal(t.year, t.month, t.day)
      IN  IF ~ValidDate(t.year, b.month, b.day)
          THEN [exc |-> "ValueError", days |-> None]
          ELSE
            LET this == Ordinal(t.year, b.month, b.day)
                \* datetime.now() > next_birthday, next_birthday at 00:00
                passed == today > this \/ (today = this /\ t.tick > 0)
            IN  IF passed /\ ~ValidDate(t.year + 1, b.month, b.day)
                THEN [exc |-> "ValueError", days |-> None]
                ELSE
                  LET next_birthday ==
                          IF passed THEN Ordinal(t.year + 1, b.month, b.day)
                          ELSE this
                      \* (next_birthday - now).days: whole days, rounded down
                      ticks == (next_birthday - today) * TicksPerDay - t.tick
                  IN  [exc |-> "", days |-> Some(ticks \div TicksPerDay)]

----------------------------------------------------------------------------
(* AddressBook: the dict is a sequence of [key, record] in insertion      *)
(* order.  A handler is an operator from the dict and the argument text    *)
(* to what the call leaves (Return / Raise).                               *)

Keys(d) == {d[i].key : i \in 1..Len(d)}

IndexOf(d, key) == CHOOSE i \in 1..Len(d) : d[i].key = key

\* self.data[key]
Get(d, key) == d[IndexOf(d, key)].record

\* AddressBook.input_error: the four caught exceptions become strings, any
\* other propagates.
input_error(o) ==
    CASE o.exc = "KeyError" ->
            Return(Str("KeyError: The key you provided does not exist.", <<>>), o.book)
      [] o.exc = "ValueError" ->
            Return(Str("ValueError: The value you provided is not valid.", <<>>), o.book)
      [] o.exc = "TypeError" ->
            Return(Str("TypeError: The function you called is missing required arguments.", <<>>), o.book)
      [] o.exc = "FileNotFoundError" ->
            Return(Str("FileNotFoundError: File with this name was not found.", <<>>), o.book)
      [] OTHER -> o

\* A variant of AddressBook.add_record that files the record under its
\* first phone number instead of its name.
add_record_by_phone(d, record) ==
    Append(d, [key |-> record.phones[1], record |-> record])

\* AddressBook.add_record: self.data[record.name.value] = record.  The dict
\* afterwards.
add_record(d, record) ==
    IF record.name \in Keys(d)
    THEN [d EXCEPT ![IndexOf(d, record.name)].record = record]
    ELSE Append(d, [key |-> record.name, record |-> record])

\* AddressBook.find
find(d, name) ==
    IF name \in Keys(d) THEN RecordAt(name)
    ELSE Str("Contact {name} not found", name)

\* bool(value) of a returned value: a Record and a non-empty str are true.
Truthy(value) ==
    value.type = "Record" \/ (value.type = "str" /\ value.text # "")

\* AddressBook.add_record_str from "record = Record(name)" on: the name is
\* not a key.
add_new_record(d, data_parts) ==
    LET name == data_parts[1]
        r == Record_add_phone(Record_init(name), data_parts[2])
    IN  IF r.exc # "" THEN Raise(r.exc, d)
        ELSE IF Len(data_parts) > 2
        THEN
          LET birthday_datetime == ParseBirthday(data_parts[3])
          IN  IF birthday_datetime = None \/ ~Birthday_is_valid(birthday_datetime[1])
              THEN Return(Str("Contact {name} added, but the birthday was entered incorrectly and was not saved", name), d)
              ELSE Return(Str("Contact {name} added", name),
                          add_record(d, [r.rec EXCEPT !.birthday = birthday_datetime]))
        ELSE Return(Str("Contact {name} added", name), add_record(d, r.rec))

\* A variant of AddressBook.add_record_str without the test for a name
\* that is already a key.
add_record_str_overwrite(d, args) ==
    LET data_parts == split(args, 2)
    IN  IF Len(data_parts) < 2 THEN Raise("ValueError", d)
        ELSE add_new_record(d, data_parts)

\* AddressBook.add_record_str.  name, phone = data_parts[:2] raises
\* ValueError when the text has one field only.
add_record_str(d, args) ==
    LET data_parts == split(args, 2)
    IN  IF Len(data_parts) < 2 THEN Raise("ValueError", d)
        ELSE IF data_parts[1] \in Keys(d)
        THEN Return(Str("Contact {name} already exists", data_parts[1]), d)
        ELSE add_new_record(d, data_parts)

\* AddressBook.add_phone
AddressBook_add_phone(d, args) ==
    LET parts == split(args, -1)
    IN  IF Len(parts) # 2 THEN Raise("ValueError", d)
        ELSE
          LET name == parts[1]
              phone_str == parts[2]
          IN  IF name \notin Keys(d)
              THEN Return(Str("Contact {name} dont found", name), d)
              ELSE IF ~Phone_is_valid(phone_str) THEN Raise("ValueError", d)
              ELSE
                LET r == Record_add_phone(Get(d, name), phone_str)
                IN  IF r.exc # "" THEN Raise(r.exc, d)
                    ELSE Return(Str("Added phone number {phone.value} to contact {name}.", name),
                                [d EXCEPT ![IndexOf(d, name)].record = r.rec])

\* AddressBook.edit_phone.  find returns a str for a missing name; the str
\* is true, and calling edit_phone on it raises AttributeError.
AddressBook_edit_phone(d, args) ==
    LET parts == split(args, -1)
    IN  IF Len(parts) # 3 THEN Raise("ValueError", d)
        ELSE
          LET name == parts[1]
              record == input_error(Return(find(d, name), d)).ret
          IN  IF Truthy(record)
              THEN IF record.type # "Record" THEN Raise("AttributeError", d)
                   ELSE
                     LET r == Record_edit_phone(Get(d, record.arg), parts[2], parts[3])
                     IN  IF r.exc # "" THEN Raise(r.exc, d)
                         ELSE Return(Str("Phone number for {name} changed.", name),
                                     [d EXCEPT ![IndexOf(d, record.arg)].record = r.rec])
              ELSE Return(Str("The contact does not exist.", <<>>), d)

\* AddressBook.birthday_change
birthday_change(d, args) ==
    LET parts == split(args, 1)
    IN  IF Len(parts) # 2 THEN Raise("ValueError", d)
        ELSE
          LET name == parts[1]
              birthday == ParseBirthday(parts[2])
          IN  IF name \notin Keys(d)
              THEN Return(Str("Contact {name} not found", name), d)
              ELSE IF birthday = None
              THEN Return(Str("Invalid date format for {name}", name), d)
              ELSE IF ~Birthday_is_valid(birthday[1]) THEN Raise("ValueError", d)
              ELSE Return(Str("Added birthday to {name}", name),
                          [d EXCEPT ![IndexOf(d, name)].record.birthday = birthday])

\* AddressBook.delete
delete(d, name) ==
    IF name \in Keys(d)
    THEN Return(Str("Contact {name} deleted", name),
                SubSeq(d, 1, IndexOf(d, name) - 1) \o SubSeq(d, IndexOf(d, name) + 1, Len(d)))
    ELSE Return(Str("Contact {name} does not exist", name), d)

\* AddressBook.days_to_birthday at clock reading t
AddressBook_days_to_birthday(d, name, t) ==
    IF name \notin Keys(d) THEN Return(Str("Contact {name} not found", name), d)
    ELSE
      LET r == Record_days_to_birthday(Get(d, name), t)
      IN  IF r.exc # "" THEN Raise(r.exc, d)
          ELSE IF r.days = None
          THEN Return(Str("{name} has no birthday information", name), d)
          ELSE Return(StrN("There are {days} days left until {name} birthday", name, r.days[1]), d)

----------------------------------------------------------------------------
(* Pagination.  iterator_instance is "absent" (no such attribute), "None", *)
(* or the generator: "suspended" at its yield, or "exhausted".  The        *)
(* operators give [exc, ret, current_page, page_size, iterator_instance].  *)

\* [(name, [phone.value ...]) ...][current_page : current_page + page_size]
PageOf(d, cp, ps) ==
    [i \in 1..(IF cp + ps <= Len(d) THEN ps ELSE IF cp < Len(d) THEN Len(d) - cp ELSE 0)
        |-> <<d[cp + i].key, d[cp + i].record.phones>>]

Sentinel == Str("No more records.", <<>>)

\* AddressBook.iterator, from its start to its first yield or its end.
iterator_begin(d, n) ==
    IF 0 < Len(d)
    THEN [exc |-> "", ret |-> List(PageOf(d, 0, n)), current_page |-> 0,
          page_size |-> Some(n), iterator_instance |-> "suspended"]
    ELSE [exc |-> "StopIteration", ret |-> NoneValue, current_page |-> 0,
          page_size |-> Some(n), iterator_instance |-> "exhausted"]

\* AddressBook.iterator, resumed after its yield: the page advances, and
\* the loop yields again or ends.
iterator_resume(d, cp, ps) ==
    IF cp + ps[1] < Len(d)
    THEN [exc |-> "", ret |-> List(PageOf(d, cp + ps[1], ps[1])),
          current_page |-> cp + ps[1], page_size |-> ps,
          iterator_instance |-> "suspended"]
    ELSE [exc |-> "StopIteration", ret |-> NoneValue,
          current_page |-> cp + ps[1], page_size |-> ps,
          iterator_instance |-> "exhausted"]

\* AddressBook.start_iterator: next(self.iterator_instance, "No more
\* records.") returns the default when the generator ends at once, and
\* leaves the ended generator in iterator_instance.
start_iterator(d, cp, ps, ii, n) ==
    IF int(n) = None
    THEN [exc |-> "ValueError", ret |-> NoneValue, current_page |-> cp,
          page_size |-> ps, iterator_instance |-> ii]
    ELSE
      LET g == iterator_begin(d, int(n)[1])
      IN  IF g.exc = "StopIteration"
          THEN [g EXCEPT !.exc = "", !.ret = Sentinel]
          ELSE g

\* AddressBook.next_page
next_page(d, cp, ps, ii) ==
    IF ii \in {"absent", "None"}
    THEN [exc |-> "", ret |-> Str("Error: call first comand -- show all", <<>>),
          current_page |-> cp, page_size |-> ps, iterator_instance |-> ii]
    ELSE
      LET g == IF ii = "suspended" THEN iterator_resume(d, cp, ps)
               ELSE [exc |-> "StopIteration", ret |-> NoneValue, current_page |-> cp,
                     page_size |-> ps, iterator_instance |-> "exhausted"]
      IN  IF g.exc = "StopIteration"
          THEN [g EXCEPT !.exc = "", !.ret = Sentinel, !.iterator_instance = "None"]
          ELSE g

----------------------------------------------------------------------------
(* The file address_book.pkl: None when it does not exist, otherwise its   *)
(* bytes: <<>> for an empty file, <<dict>> for the pickle of a dict.       *)

pickle_dump(d) == <<d>>

\* pickle.load: [exc, obj]; an empty file raises EOFError.
pickle_load(bytes) ==
    IF bytes = <<>> THEN [exc |-> "EOFError", obj |-> <<>>]
    ELSE [exc |-> "", obj |-> bytes[1]]

\* AddressBook.save_to_file: the file afterwards.
save_to_file(d) == Some(pickle_dump(d))

\* AddressBook.load_from_file: what the call leaves, book the loaded dict.
load_from_file(d, f) ==
    IF f = None THEN Raise("FileNotFoundError", d)
    ELSE IF pickle_load(f[1]).exc # "" THEN Raise(pickle_load(f[1]).exc, d)
    ELSE Return(Str("Downloaded from {filename}", <<>>), pickle_load(f[1]).obj)

----------------------------------------------------------------------------
(* main: the command table and choice_action.                              *)

\* main's ACTIONS dict, in the order of its literal: command prefix, handler.
MainACTIONS ==
    << <<<<"a","d","d"," ","c","o","n","t","a","c","t">>, "add_record_str">>,
       <<<<"a","d","d"," ","p","h","o","n","e">>, "add_phone">>,
       <<<<"e","d","i","t"," ","p","h","o","n","e">>, "edit_phone">>,
       <<<<"b","i","r","t","h","d","a","y"," ","c","h","a","n","g","e">>, "birthday_change">>,
       <<<<"d","e","l","e","t","e"," ","c","o","n","t","a","c","t">>, "delete">>,
       <<<<"b","i","r","t","h","d","a","y">>, "days_to_birthday">>,
       <<<<"f","i","n","d">>, "find">>,
       <<<<"s","e","a","r","c","h">>, "search">>,
       <<<<"s","h","o","w"," ","c","o","n","t","a","c","t","s">>, "start_iterator">>,
       <<<<"n","e","x","t">>, "next_page">>,
       <<<<"s","a","v","e">>, "save_to_file">>,
       <<<<"e","x","i","t">>, "good_bye">>,
       <<<<"c","l","o","s","e">>, "good_bye">>,
       <<<<".">>, "good_bye">> >>

\* choice_action: the first command of the table the line starts with;
\* func "" stands for the str returned for a line that matches none.
\* args is the stripped rest of the line, None when it is empty.
choice_action(line) ==
    IF \E i \in 1..Len(MainACTIONS) : startswith(line, MainACTIONS[i][1])
    THEN LET i == CHOOSE k \in 1..Len(MainACTIONS) :
                    /\ startswith(line, MainACTIONS[k][1])
                    /\ \A j \in 1..(k - 1) : ~startswith(line, MainACTIONS[j][1])
         IN  [func |-> MainACTIONS[i][2],
              args |-> strip(SubSeq(line, Len(MainACTIONS[i][1]) + 1, Len(line)))]
    ELSE [func |-> "", args |-> None]

GoodBye == Str("Good bye!", <<>>)

----------------------------------------------------------------------------
(* The input lines of the model.                                           *)

RECURSIVE Join(_)
Join(words) ==
    IF Len(words) = 1 THEN words[1]
    ELSE words[1] \o <<" ">> \o Join(Tail(words))

NameA == <<"A">>

NameB == <<"B">>

NameC == <<"C">>

Phone1 == <<"1","1","1","1","1","1","1","1","1","1">>

Phone2 == <<"2","2","2","2","2","2","2","2","2","2">>

BadPhone == <<"1","2","a">>

DateDash == <<"0","1","-","0","2","-","1","9","9","0">>

DateBlank == <<"0","1"," ","0","2"," ","1","9","9","0">>

DateSlash == <<"1","5","/","0","3","/","2","0","0","0">>

DateOther == <<"1","5","-","0","3","-","2","0","0","0">>

DateLeap == <<"2","9","/","0","2","/","1","9","9","2">>

DateLast == <<"3","1"," ","1","2"," ","1","9","9","9">>

BadDate == <<"1","9","9","0","-","0","2","-","0","1">>

Cmd(i) == MainACTIONS[i][1]

\* Lines for the specification of the contact commands.
BookLines ==
    { Join(<<Cmd(1), NameA, Phone1>>),
      Join(<<Cmd(1), NameB, Phone2, DateBlank>>),
      Join(<<Cmd(1), NameB, Phone2, BadDate>>),
      Join(<<Cmd(1), NameA, BadPhone>>),
      Join(<<Cmd(1), NameA>>),
      Cmd(1),
      Join(<<Cmd(2), NameA, Phone1>>),
      Join(<<Cmd(2), NameA, Phone2>>),
      Join(<<Cmd(2), NameA, BadPhone>>),
      Join(<<Cmd(2), NameA>>),
      Join(<<Cmd(3), NameA, Phone1, Phone2>>),
      Join(<<Cmd(3), NameA, Phone1, Phone1>>),
      Join(<<Cmd(3), NameA, Phone1, BadPhone>>),
      Join(<<Cmd(3), NameC, Phone1, Phone2>>),
      Join(<<Cmd(3), NameA>>),
      Join(<<Cmd(4), NameB, DateSlash>>),
      Join(<<Cmd(4), NameB, BadDate>>),
      Join(<<Cmd(4), NameB>>),
      Join(<<Cmd(5), NameA>>),
      Join(<<Cmd(5), NameB>>),
      Cmd(11),
      Join(<<Cmd(11), <<"n","o","w">> >>),
      Cmd(12),
      Cmd(13),
      Cmd(14),
      Join(<<Cmd(12), <<"n","o","w">> >>),
      <<"h","e","l","l","o">> }

\* Lines for the specification of pagination.
PagingLines ==
    { Join(<<Cmd(1), NameA, Phone1>>),
      Join(<<Cmd(1), NameB, Phone2>>),
      Join(<<Cmd(1), NameC, Phone1>>),
      Join(<<Cmd(5), NameA>>),
      Join(<<Cmd(5), NameB>>),
      Join(<<Cmd(5), NameC>>),
      Join(<<Cmd(9), <<"1">> >>),
      Join(<<Cmd(9), <<"2">> >>),
      Join(<<Cmd(9), <<"x">> >>),
      Cmd(9),
      Cmd(10),
      Join(<<Cmd(10), <<"x">> >>) }

\* Lines for the specification of the birthday count.
BirthdayLines ==
    { Join(<<Cmd(6), NameA>>),
      Join(<<Cmd(6), NameB>>),
      Join(<<Cmd(6), NameC>>),
      Cmd(6) }

\* The birthdays of contact A in that specification.
BirthdayTexts == {DateDash, DateLeap, DateLast, DateOther}

\* choice_action on every line of the model and on the empty line.
Dispatch ==
    [line \in BookLines \cup PagingLines \cup BirthdayLines \cup {<<>>}
        |-> choice_action(line)]

----------------------------------------------------------------------------
(* The process.                                                            *)

ClockStart == [year |-> FirstYear, month |-> 1, day |-> 1, tick |-> 0]

\* ab = AddressBook(), before main runs; no file on disk.
Init ==
    /\ data = <<>>
    /\ current_page = 0
    /\ page_size = None
    /\ iterator_instance = "absent"
    /\ file = None
    /\ pc = "main"
    /\ exc = ""
    /\ inp = <<>>
    /\ result = NoneValue
    /\ now = ClockStart
    /\ pages = <<>>
    /\ sentinels = 0
    /\ dirty = FALSE
    /\ stay = {}

\* main before its loop: load the file if it exists, else create it empty.
\* An exception load_from_file does not catch ends the process.
Start ==
    /\ pc = "main"
    /\ IF file # None
       THEN LET o == input_error(load_from_file(data, file))
            IN  /\ data' = o.book
                /\ exc' = o.exc
                /\ pc' = IF o.exc # "" THEN "crashed" ELSE "loop"
                /\ file' = file
       ELSE /\ file' = Some(<<>>)
            /\ pc' = "loop"
            /\ UNCHANGED <<data, exc>>
    /\ UNCHANGED <<current_page, page_size, iterator_instance, inp, result,
                   now, pages, sentinels, dirty, stay>>

\* The program is run again after it ended: a new AddressBook, the file as
\* it was left.
Relaunch ==
    /\ pc \in {"done", "crashed"}
    /\ data' = <<>>
    /\ current_page' = 0
    /\ page_size' = None
    /\ iterator_instance' = "absent"
    /\ pc' = "main"
    /\ exc' = ""
    /\ inp' = <<>>
    /\ result' = NoneValue
    /\ pages' = <<>>
    /\ sentinels' = 0
    /\ dirty' = FALSE
    /\ stay' = {}
    /\ UNCHANGED <<file, now>>

\* input() raises EOFError (the input ended): nothing catches it.
EndOfInput ==
    /\ pc = "loop"
    /\ pc' = "crashed"
    /\ exc' = "EOFError"
    /\ inp' = <<>>
    /\ result' = NoneValue
    /\ UNCHANGED <<data, current_page, page_size, iterator_instance, file, now,
                   pages, sentinels, dirty, stay>>

\* result = func(args) if args else func(), for a handler of one
\* parameter and for one of none: the wrong number of arguments is a
\* TypeError, raised inside input_error's try.
Call1(args, o) == IF args = None THEN Raise("TypeError", data) ELSE o

Call0(args, o) == IF args # None THEN Raise("TypeError", data) ELSE o

\* One iteration of the loop for a handler that works on the dict only:
\* the line read, the value printed, the break on "Good bye!"; an
\* exception that input_error let through ends the process.
Iteration(line, o) ==
    /\ inp' = line
    /\ data' = o.book
    /\ dirty' = (dirty \/ o.book # data)
    /\ stay' = stay \cap Keys(o.book)
    /\ exc' = o.exc
    /\ result' = o.ret
    /\ pc' = IF o.exc # "" THEN "crashed"
             ELSE IF o.ret = GoodBye THEN "done" ELSE "loop"

AddRecordStr(L) ==
    /\ pc = "loop"
    /\ \E line \in L :
        /\ Dispatch[line].func = "add_record_str"
        /\ Iteration(line, input_error(Call1(Dispatch[line].args,
                                add_record_str(data, Dispatch[line].args))))
    /\ UNCHANGED <<current_page, page_size, iterator_instance, file, now,
                   pages, sentinels>>

AddPhone(L) ==
    /\ pc = "loop"
    /\ \E line \in L :
        /\ Dispatch[line].func = "add_phone"
        /\ LET o == input_error(Call1(Dispatch[line].args,
                                AddressBook_add_phone(data, Dispatch[line].args)))
           IN  /\ \A i \in 1..Len(o.book) : Len(o.book[i].record.phones) <= MaxPhones
               /\ Iteration(line, o)
    /\ UNCHANGED <<current_page, page_size, iterator_instance, file, now,
                   pages, sentinels>>

EditPhone(L) ==
    /\ pc = "loop"
    /\ \E line \in L :
        /\ Dispatch[line].func = "edit_phone"
        /\ Iteration(line, input_error(Call1(Dispatch[line].args,
                                AddressBook_edit_phone(data, Dispatch[line].args))))
    /\ UNCHANGED <<current_page, page_size, iterator_instance, file, now,
                   pages, sentinels>>

BirthdayChange(L) ==
    /\ pc = "loop"
    /\ \E line \in L :
        /\ Dispatch[line].func = "birthday_change"
        /\ Iteration(line, input_error(Call1(Dispatch[line].args,
                                birthday_change(data, Dispatch[line].args))))
    /\ UNCHANGED <<current_page, page_size, iterator_instance, file, now,
                   pages, sentinels>>

Delete(L) ==
    /\ pc = "loop"
    /\ \E line \in L :
        /\ Dispatch[line].func = "delete"
        /\ Iteration(line, input_error(Call1(Dispatch[line].args,
                                delete(data, Dispatch[line].args))))
    /\ UNCHANGED <<current_page, page_size, iterator_instance, file, now,
                   pages, sentinels>>

DaysToBirthday(L) ==
    /\ pc = "loop"
    /\ \E line \in L :
        /\ Dispatch[line].func = "days_to_birthday"
        /\ Iteration(line, input_error(Call1(Dispatch[line].args,
                                AddressBook_days_to_birthday(data, Dispatch[line].args, now))))
    /\ UNCHANGED <<current_page, page_size, iterator_instance, file, now,
                   pages, sentinels>>

\* save: AddressBook.save_to_file
Save(L) ==
    /\ pc = "loop"
    /\ \E line \in L :
        /\ Dispatch[line].func = "save_to_file"
        /\ Iteration(line, input_error(Call0(Dispatch[line].args,
                                Return(Str("Data saved to {filename}", <<>>), data))))
        /\ file' = IF Dispatch[line].args = None THEN save_to_file(data) ELSE file
    /\ UNCHANGED <<current_page, page_size, iterator_instance, now, pages, sentinels>>

\* exit, close, ".": AddressBook.good_bye, which saves and returns
\* "Good bye!"
Exit(L) ==
    /\ pc = "loop"
    /\ \E line \in L :
        /\ Dispatch[line].func = "good_bye"
        /\ Iteration(line, input_error(Call0(Dispatch[line].args, Return(GoodBye, data))))
        /\ file' = IF Dispatch[line].args = None THEN save_to_file(data) ELSE file
    /\ UNCHANGED <<current_page, page_size, iterator_instance, now, pages, sentinels>>

\* A line that starts with no command: choice_action's str is printed.
Unknown(L) ==
    /\ pc = "loop"
    /\ \E line \in L :
        /\ Dispatch[line].func = ""
        /\ Iteration(line, Return(Str("Give me a correct command please. ...", <<>>), data))
    /\ UNCHANGED <<current_page, page_size, iterator_instance, file, now,
                   pages, sentinels>>

\* The names on a returned page.
NamesOf(items) == [i \in 1..Len(items) |-> items[i][1]]

\* One iteration of the loop for a pagination handler; g is what the
\* handler leaves.  The history records the pages and sentinels returned.
PagingIteration(line, g) ==
    /\ inp' = line
    /\ exc' = g.exc
    /\ result' = g.ret
    /\ pc' = IF g.exc # "" THEN "crashed" ELSE "loop"
    /\ current_page' = g.current_page
    /\ page_size' = g.page_size
    /\ iterator_instance' = g.iterator_instance
    /\ UNCHANGED <<data, file, now>>

\* input_error around a pagination handler.
PagingError(args, arity, g) ==
    LET bad == [exc |-> "", ret |-> NoneValue, current_page |-> current_page,
                page_size |-> page_size, iterator_instance |-> iterator_instance]
    IN  IF (arity = 1) # (args # None)
        THEN [bad EXCEPT !.ret = input_error(Raise("TypeError", data)).ret]
        ELSE IF g.exc \in {"KeyError", "ValueError", "TypeError", "FileNotFoundError"}
        THEN [g EXCEPT !.exc = "", !.ret = input_error(Raise(g.exc, data)).ret]
        ELSE g

\* show contacts: AddressBook.start_iterator
StartIterator(L) ==
    /\ pc = "loop"
    /\ \E line \in L :
        /\ Dispatch[line].func = "start_iterator"
        /\ LET g == PagingError(Dispatch[line].args, 1,
                        start_iterator(data, current_page, page_size,
                                       iterator_instance, Dispatch[line].args))
           IN  /\ PagingIteration(line, g)
               /\ IF g.iterator_instance = iterator_instance /\ g.ret.type = "str"
                     /\ g.ret # Sentinel
                  THEN UNCHANGED <<pages, sentinels, dirty, stay>>
                  ELSE /\ pages' = IF g.ret.type = "list"
                                   THEN <<NamesOf(g.ret.items)>> ELSE <<>>
                       /\ sentinels' = IF g.ret = Sentinel THEN 1 ELSE 0
                       /\ dirty' = FALSE
                       /\ stay' = Keys(data)

\* next: AddressBook.next_page
NextPage(L) ==
    /\ pc = "loop"
    /\ \E line \in L :
        /\ Dispatch[line].func = "next_page"
        /\ LET g == PagingError(Dispatch[line].args, 0,
                        next_page(data, current_page, page_size, iterator_instance))
           IN  /\ PagingIteration(line, g)
               /\ pages' = IF g.ret.type = "list"
                           THEN Append(pages, NamesOf(g.ret.items)) ELSE pages
               /\ sentinels' = IF g.ret = Sentinel THEN sentinels + 1 ELSE sentinels
               /\ UNCHANGED <<dirty, stay>>

\* The clock moves on by one tick.
Tick ==
    /\ ~(now.year = FirstYear + YearSpan - 1 /\ now.month = 12 /\ now.day = 31
         /\ now.tick = TicksPerDay - 1)
    /\ now' = IF now.tick < TicksPerDay - 1 THEN [now EXCEPT !.tick = @ + 1]
              ELSE IF now.day < DaysInMonth(now.year, now.month)
              THEN [now EXCEPT !.tick = 0, !.day = @ + 1]
              ELSE IF now.month < 12
              THEN [now EXCEPT !.tick = 0, !.day = 1, !.month = @ + 1]
              ELSE [now EXCEPT !.tick = 0, !.day = 1, !.month = 1, !.year = @ + 1]
    /\ UNCHANGED <<data, current_page, page_size, iterator_instance, file, pc,
                   exc, inp, result, pages, sentinels, dirty, stay>>

----------------------------------------------------------------------------
(* Specifications.                                                         *)

\* The contact commands, saving, exiting, and running the program again.
Next ==
    \/ Start
    \/ Relaunch
    \/ EndOfInput
    \/ AddRecordStr(BookLines)
    \/ AddPhone(BookLines)
    \/ EditPhone(BookLines)
    \/ BirthdayChange(BookLines)
    \/ Delete(BookLines)
    \/ Save(BookLines)
    \/ Exit(BookLines)
    \/ Unknown(BookLines)

Spec == Init /\ [][Next]_vars

\* Pagination, with contacts added and deleted.
NextPaging ==
    \/ Start
    \/ AddRecordStr(PagingLines)
    \/ Delete(PagingLines)
    \/ StartIterator(PagingLines)
    \/ NextPage(PagingLines)

SpecPaging == Init /\ [][NextPaging]_vars

\* The birthday count over the days of the clock: contact A with one of
\* the birthdays, contact B with none, both added by add contact.
InitBirthday ==
    /\ \E text \in BirthdayTexts :
          data = add_record_str(
                    add_record_str(<<>>, Join(<<NameA, Phone1, text>>)).book,
                    Join(<<NameB, Phone2>>)).book
    /\ current_page = 0
    /\ page_size = None
    /\ iterator_instance = "absent"
    /\ file = Some(<<>>)
    /\ pc = "loop"
    /\ exc = ""
    /\ inp = <<>>
    /\ result = NoneValue
    /\ now = ClockStart
    /\ pages = <<>>
    /\ sentinels = 0
    /\ dirty = FALSE
    /\ stay = {}

NextBirthday ==
    \/ Tick
    \/ DaysToBirthday(BirthdayLines)

SpecBirthday == InitBirthday /\ [][NextBirthday]_vars

----------------------------------------------------------------------------
(* Properties.  In an action formula, inp' is the line the step read, and  *)
(* a step from pc = "loop" that reads a line is one iteration of the loop. *)

\* The handler and the fields of the argument text of a line.
FuncOf(line) == Dispatch[line].func

ArgsOf(line) == Dispatch[line].args

PartsOf(line, maxsplit) == split(Dispatch[line].args, maxsplit)

\* How many of the phones equal phone_number.
Occurrences(phones, phone_number) ==
    Cardinality({i \in 1..Len(phones) : phones[i] = phone_number})

\* C1: add contact with a name that is not a key, a valid phone and a
\* birthday text that no format parses adds the contact, without a
\* birthday, and returns the warning.
C1_AddedDespiteBadBirthday ==
    [][ (/\ pc = "loop"
         /\ FuncOf(inp') = "add_record_str"
         /\ Len(PartsOf(inp', 2)) = 3
         /\ PartsOf(inp', 2)[1] \notin Keys(data)
         /\ Phone_is_valid(PartsOf(inp', 2)[2])
         /\ ParseBirthday(PartsOf(inp', 2)[3]) = None)
        => (/\ pc' = "loop"
            /\ result' = Str("Contact {name} added, but the birthday was entered incorrectly and was not saved",
                             PartsOf(inp', 2)[1])
            /\ PartsOf(inp', 2)[1] \in Keys(data')
            /\ Get(data', PartsOf(inp', 2)[1]).phones = <<PartsOf(inp', 2)[2]>>
            /\ Get(data', PartsOf(inp', 2)[1]).birthday = None) ]_vars

\* C2: edit phone with a name that is not a key returns "The contact does
\* not exist.", the loop goes on and the dict is unchanged.
C2_EditMissingContactReported ==
    [][ (/\ pc = "loop"
         /\ FuncOf(inp') = "edit_phone"
         /\ Len(PartsOf(inp', -1)) = 3
         /\ PartsOf(inp', -1)[1] \notin Keys(data))
        => (/\ pc' = "loop"
            /\ result' = Str("The contact does not exist.", <<>>)
            /\ data' = data) ]_vars

Ceil(m, p) == (m + p - 1) \div p

\* C3: with no mutation since show contacts(P), over M contacts the pages
\* returned are the first of ceil(M/P) pages, each of P entries but
\* possibly the last; once the sentinel was returned all ceil(M/P) were;
\* the sentinel is returned once only, and a next after it returns the
\* "call show first" message.
C3_PagesThenOneSentinel ==
    (page_size # None /\ ~dirty) =>
        LET M == Len(data)
            P == page_size[1]
        IN  /\ Len(pages) <= Ceil(M, P)
            /\ \A i \in 1..Len(pages) :
                  Len(pages[i]) = IF i < Ceil(M, P) THEN P ELSE M - (Ceil(M, P) - 1) * P
            /\ sentinels >= 1 => Len(pages) = Ceil(M, P)
            /\ sentinels <= 1
            /\ (sentinels >= 1 /\ FuncOf(inp) = "next_page" /\ ArgsOf(inp) = None
                  /\ result # Sentinel)
                => result = Str("Error: call first comand -- show all", <<>>)

\* How many times a name was returned in the pages.
TimesPaged(name) ==
    Cardinality({<<i, j>> \in (1..Len(pages)) \X (1..Len(data) + 3) :
                    j <= Len(pages[i]) /\ pages[i][j] = name})

\* C10: once the sentinel was returned, every contact that was in the dict
\* from show contacts on was returned in exactly one page.
C10_EachContactPagedOnce ==
    sentinels >= 1 => \A name \in stay : TimesPaged(name) = 1

\* C4: the birthday count of a contact whose birthday's month and day are
\* today's is 0 at any time of the day, and a birthday later in this year
\* is counted to this year's date.
C4_BirthdayTodayIsZero ==
    [][ (/\ pc = "loop"
         /\ now' = now
         /\ FuncOf(inp') = "days_to_birthday"
         /\ ArgsOf(inp') \in Keys(data)
         /\ Get(data, ArgsOf(inp')).birthday # None)
        => LET b == Get(data, ArgsOf(inp')).birthday[1]
           IN  /\ (b.month = now.month /\ b.day = now.day)
                    => result' = StrN("There are {days} days left until {name} birthday",
                                      ArgsOf(inp'), 0)
               /\ (b.month > now.month \/ (b.month = now.month /\ b.day > now.day))
                    => (\/ ~ValidDate(now.year, b.month, b.day)
                        \/ /\ result'.text = "There are {days} days left until {name} birthday"
                           /\ result'.n <= Ordinal(now.year, b.month, b.day)
                                             - Ordinal(now.year, now.month, now.day)) ]_vars

\* An edit phone step for a contact of the dict with a valid new number.
EditOfContact ==
    /\ pc = "loop"
    /\ FuncOf(inp') = "edit_phone"
    /\ Len(PartsOf(inp', -1)) = 3
    /\ PartsOf(inp', -1)[1] \in Keys(data)
    /\ Phone_is_valid(PartsOf(inp', -1)[3])

\* C5 as stated: edit phone on a contact of the dict with a valid new
\* number reports that old is not among the phones, or afterwards
\* find_phone(new) returns a phone and find_phone(old) returns nothing.
C5_EditReplacesOld ==
    [][ EditOfContact =>
          LET name == PartsOf(inp', -1)[1]
              old == PartsOf(inp', -1)[2]
              new == PartsOf(inp', -1)[3]
          IN  IF Record_find_phone(Get(data, name), old) = None
              THEN /\ result' = Str("ValueError: The value you provided is not valid.", <<>>)
                   /\ data' = data
              ELSE /\ name \in Keys(data')
                   /\ Record_find_phone(Get(data', name), new) # None
                   /\ Record_find_phone(Get(data', name), old) = None ]_vars

\* C5 amended: ... or the first matching phone is replaced, afterwards
\* find_phone(new) returns a phone, and find_phone(old) returns nothing
\* exactly when old differs from new and occurred once among the phones.
C5_EditReplacesFirstOld ==
    [][ EditOfContact =>
          LET name == PartsOf(inp', -1)[1]
              old == PartsOf(inp', -1)[2]
              new == PartsOf(inp', -1)[3]
              phones == Get(data, name).phones
          IN  IF Record_find_phone(Get(data, name), old) = None
              THEN /\ result' = Str("ValueError: The value you provided is not valid.", <<>>)
                   /\ data' = data
              ELSE /\ result' = Str("Phone number for {name} changed.", name)
                   /\ Keys(data') = Keys(data)
                   /\ Get(data', name).phones =
                        [phones EXCEPT ![FirstIndex(phones, old)] = new]
                   /\ Record_find_phone(Get(data', name), new) # None
                   /\ (Record_find_phone(Get(data', name), old) = None)
                        <=> (old # new /\ Occurrences(phones, old) = 1) ]_vars

\* C5's case with a duplicate: the edit replaced the first of two equal
\* phones, and find_phone(old) still returns a phone.
C5_EditedDuplicate ==
    /\ pc = "loop"
    /\ FuncOf(inp) = "edit_phone"
    /\ Len(PartsOf(inp, -1)) = 3
    /\ result = Str("Phone number for {name} changed.", PartsOf(inp, -1)[1])
    /\ PartsOf(inp, -1)[2] # PartsOf(inp, -1)[3]
    /\ Record_find_phone(Get(data, PartsOf(inp, -1)[1]), PartsOf(inp, -1)[2]) # None
    /\ Get(data, PartsOf(inp, -1)[1]).phones[1] = PartsOf(inp, -1)[3]

\* C6: add contact with a name that is a key returns "already exists" and
\* leaves the dict as it was, whatever phone and birthday text it carries.
C6_ExistingNameUntouched ==
    [][ (/\ pc = "loop"
         /\ FuncOf(inp') = "add_record_str"
         /\ Len(PartsOf(inp', 2)) >= 2
         /\ PartsOf(inp', 2)[1] \in Keys(data))
        => (/\ data' = data
            /\ result' = Str("Contact {name} already exists", PartsOf(inp', 2)[1])
            /\ pc' = "loop") ]_vars

\* C6's case: "already exists" was returned for a line whose phone and
\* birthday differ from the existing contact's.
C6_RejectedDifferentDetails ==
    /\ FuncOf(inp) = "add_record_str"
    /\ Len(PartsOf(inp, 2)) = 3
    /\ result = Str("Contact {name} already exists", PartsOf(inp, 2)[1])
    /\ ParseBirthday(PartsOf(inp, 2)[3]) # None
    /\ Get(data, PartsOf(inp, 2)[1]).birthday # ParseBirthday(PartsOf(inp, 2)[3])

\* C7: after a line that dispatches to good_bye (exit, close, ".", with or
\* without text after the command) the session has ended and the file
\* holds the dict.
C7_ExitSavesAndEnds ==
    (inp # <<>> /\ FuncOf(inp) = "good_bye")
        => (pc = "done" /\ file = Some(pickle_dump(data)))

\* C8: every key of the dict maps to a Record whose name is the key.
C8_KeyIsRecordName ==
    \A i \in 1..Len(data) : data[i].record.name = data[i].key

\* C8's case: a later session has loaded two contacts, one with a
\* birthday, from the file.
C8_LoadedTwoContacts ==
    /\ pc = "loop"
    /\ inp = <<>>
    /\ Len(data) = 2
    /\ \E i \in 1..Len(data) : data[i].record.birthday # None
    /\ file = Some(pickle_dump(data))

\* C9: every start of the program reaches the command loop.
C9_StartReachesLoop ==
    [][ pc = "main" => pc' = "loop" ]_vars

====
